---- MODULE Spec2Model ----
(***************************************************************************)
(* State-machine model of the crash-alert clients.                         *)
(*                                                                         *)
(*   operator view : frontend/dashboard_script.js (src/unnamed/part_000)   *)
(*   end-user view : src/frontend/webapp_script.js                         *)
(*                                                                         *)
(* Both views run connectWebSocket / addNotification with the same control *)
(* flow; they differ in the capacity of the notification area and in the   *)
(* texts they display.  The variable `view` selects the deployment.        *)
(*                                                                         *)
(* The notification store IS the DOM node #notifications: its element      *)
(* children are the variable `notifs`, head = firstChild.                  *)
(* Timestamps (detection_timestamp, toLocaleString) are not modelled: no   *)
(* branch of the code depends on them.                                     *)
(***************************************************************************)
EXTENDS Integers, Sequences, FiniteSets, TLC

\* ------------------------------------------------------------------ bounds
\* Number of frames that reach addNotification in one run.
MaxMsgs == 21
\* How many of those may be other than the canonical frame (payload variety).
MaxVaried == 1
\* The counter of consecutive loss/retry cycles saturates here.
MaxCycles == 3
\* Advisory chains started in one run (the start-up chain and later clicks).
MaxChains == 2

\* --------------------------------------------------------------- constants
\* const maxNotifications = 20  (operator view)
maxNotificationsOperator == 20
\* const maxNotifications = 10  (end-user view)
maxNotificationsUser == 10

Views == {"operator", "user"}

maxNotifications(v) ==
    IF v = "operator" THEN maxNotificationsOperator ELSE maxNotificationsUser

\* ------------------------------------------------------------------- texts
\* The placeholder of the page markup (the markup is not part of src/).
InitialPlaceholder == "Waiting for crash alerts..."
ConnectedText == "Connected. Waiting for new crash alerts..."

DisconnectedText(v) ==
    IF v = "operator"
    THEN "WebSocket disconnected. Attempting to reconnect in 5 seconds..."
    ELSE "WebSocket disconnected. Attempting to reconnect..."

\* video_filename of the synthetic record built by ws.onerror
ErrorFilename(v) ==
    IF v = "operator" THEN "WebSocket Error" ELSE "WebSocket Conn Error to wss://host/ws"

\* textContent.includes('Waiting'), on the paragraph texts that can occur
IncludesWaiting(text) == text \in {InitialPlaceholder, ConnectedText}

\* ------------------------------------------------------------ JSON values
\* A JSON value found in the `data` field: t is its JavaScript type, v its
\* value; for an object, v is its video_filename ("undefined" when absent).
Undefined   == [t |-> "undefined", v |-> "undefined"]
JsNull      == [t |-> "null",      v |-> "null"]
EmptyString == [t |-> "string",    v |-> ""]
SomeString  == [t |-> "string",    v |-> "x"]
Obj(name)   == [t |-> "object",    v |-> name]

DataValues ==
    {Undefined, JsNull, EmptyString, SomeString,
     Obj("a.mp4"), Obj("undefined")}

\* JavaScript truthiness of a data value
Truthy(d) ==
    CASE d.t = "undefined" -> FALSE
      [] d.t = "null"      -> FALSE
      [] d.t = "string"    -> d.v # ""
      [] OTHER             -> TRUE

\* crashData.video_filename: a property read; undefined on a primitive
VideoFilename(d) == IF d.t = "object" THEN d.v ELSE "undefined"

\* x || dflt for a string-or-undefined x
OrDefault(x, dflt) == IF x \in {"undefined", ""} THEN dflt ELSE x

\* A text frame of the push channel.  json tells what JSON.parse makes of it:
\* "invalid" (throws), "null", "number", or "object" with fields type, data.
Frame(j, ty, d) == [json |-> j, type |-> ty, data |-> d]
InvalidJson == Frame("invalid", "undefined", Undefined)
JsonNull    == Frame("null",    "undefined", Undefined)
JsonNumber  == Frame("number",  "undefined", Undefined)
Envelope(ty, d) == Frame("object", ty, d)
NoFrame     == Frame("none",    "undefined", Undefined)

Frames ==
    {InvalidJson, JsonNull, JsonNumber}
      \cup {Envelope("new_crash", d) : d \in DataValues}
      \cup {Envelope("other", d) : d \in {Undefined, Obj("a.mp4")}}

\* The frame of spec section 8: {"type":"new_crash","data":{"video_filename":"a.mp4",..}}
Canonical == Envelope("new_crash", Obj("a.mp4"))

\* ------------------------------------------------------------ DOM elements
\* A child of #notifications.  seq orders the alert records by arrival
\* (0 for paragraphs and for synthetic records).
P(text) == [tag |-> "p", text |-> text, seq |-> 0, isError |-> FALSE]
Item(text, n, err) == [tag |-> "div", text |-> text, seq |-> n, isError |-> err]

\* A WebSocket object.  A socket stays in `sockets` until its close event
\* has been dispatched; readyState CLOSED there means "close event pending".
Socket(rs, opened, errored) ==
    [readyState |-> rs, wasOpen |-> opened, errored |-> errored]

VARIABLES
    view,       \* which script runs
    started,    \* the page-load handler has run
    sockets,    \* WebSocket objects with a close event still to come, by creation
    timers,     \* pending setTimeout(connectWebSocket, 5000) timers
    notifs,     \* notificationsDiv.children
    arrivals,   \* frames dispatched to addNotification so far
    varied,     \* of those, frames other than Canonical
    cycles,     \* retry timers fired since a record was last dispatched (saturating)
    last,       \* the handler that ran last: event, frame, records pushed, socket
    refreshDisabled,  \* refreshWeatherBtn.disabled
    locationStatus,   \* locationStatusP.textContent
    weatherInfo,      \* weatherInfoDiv: what is displayed, and the chain that wrote it
    chains,           \* the runs of requestLocationAndFetchWeather, by start order
    loadHistoryDisabled,  \* loadHistoryBtn.disabled
    historyStatus,        \* historyStatus.textContent
    historyTbody,         \* the rows of historyTbody, top to bottom
    fetches,              \* the runs of fetchCrashHistory, by start order
    stopped               \* the push channel has been told to stop

pushVars == <<sockets, timers, notifs, arrivals, varied, cycles, last>>
advVars == <<refreshDisabled, locationStatus, weatherInfo, chains>>
histVars == <<loadHistoryDisabled, historyStatus, historyTbody, fetches>>
vars == <<view, started, pushVars, advVars, histVars, stopped>>

Event(ev, f, n, s) == [ev |-> ev, frame |-> f, pushed |-> n, sock |-> s]
NoSocket == Socket("NONE", FALSE, FALSE)

Min(a, b) == IF a < b THEN a ELSE b

\* ------------------------------------------------------------ DOM helpers
\* notificationsDiv.querySelector('p'): index of the first paragraph, 0 if none
FirstP(children) ==
    IF \E i \in 1..Len(children) : children[i].tag = "p"
    THEN CHOOSE i \in 1..Len(children) :
            /\ children[i].tag = "p"
            /\ \A j \in 1..(i - 1) : children[j].tag # "p"
    ELSE 0

\* querySelector('p')?.textContent.includes('Waiting')
ShowsWaiting(children) ==
    /\ FirstP(children) # 0
    /\ IncludesWaiting(children[FirstP(children)].text)

\* Variant of Evict: removeChild(firstChild)
RECURSIVE EvictFirstChild(_, _)
EvictFirstChild(children, max) ==
    IF Len(children) > max
    THEN EvictFirstChild(SubSeq(children, 2, Len(children)), max)
    ELSE children

\* while (children.length > max) removeChild(lastChild)
RECURSIVE Evict(_, _)
Evict(children, max) ==
    IF Len(children) > max
    THEN Evict(SubSeq(children, 1, Len(children) - 1), max)
    ELSE children

\* Variant of Prepend: appendChild(item)
AppendChild(item, children) == children \o <<item>>

\* prepend(item)
Prepend(item, children) == <<item>> \o children

\* The text shown for the record's video/reference
ItemText(v, crashData, isError) ==
    IF v = "operator"
    THEN OrDefault(VideoFilename(crashData), "Unknown Video")
    ELSE IF isError
         THEN OrDefault(VideoFilename(crashData), "Unknown")
         ELSE OrDefault(VideoFilename(crashData), "N/A")

\* addNotification / addUserNotification: the children afterwards
addNotification(v, children, crashData, isError, n) ==
    LET item    == Item(ItemText(v, crashData, isError), n, isError)
        cleared == IF ShowsWaiting(children) THEN <<>> ELSE children
    IN  Evict(Prepend(item, cleared), maxNotifications(v))

\* ------------------------------------------------- advisory chain (user view)
\* What weatherInfoDiv shows, and the chain whose code wrote it.
Shown(text, k) == [text |-> text, by |-> k]

\* One run of requestLocationAndFetchWeather and of the fetchWeatherAndSpeed
\* it calls.  pc is the await the run is suspended at ("done": nothing is
\* pending); how is the outcome of the location steps; lat/lon are the
\* parameters of fetchWeatherAndSpeed; calls counts fetch(url); query is the
\* query string of that url, <<>> when the url carries none; perm and
\* position are what requestPermissions() and getCurrentPosition() settled
\* with ("none", NoPosition: not settled).
NoPosition == [kind |-> "none", latitude |-> "undefined", longitude |-> "undefined"]
Chain(pc, how) ==
    [pc |-> pc, how |-> how, lat |-> "null", lon |-> "null", calls |-> 0, query |-> <<>>,
     perm |-> "none", position |-> NoPosition]

\* What resolves window.Capacitor...Geolocation / Geolocation:
\*   "plugin" : a plugin object with requestPermissions and getCurrentPosition
\*   "falsy"  : a falsy value, the code throws "Geolocation plugin is not available"
\*   "broken" : reading it or calling requestPermissions throws
Capabilities == {"plugin", "falsy", "broken"}

\* How the promise of requestPermissions() settles: with a status whose
\* location is one of the strings, with no status object, or rejected.
PermOutcomes ==
    {"granted", "prompt-with-rationale", "denied", "prompt", "undefined", "rejected"}

\* How the promise of getCurrentPosition() settles.
Position(lat, lon) == [kind |-> "position", latitude |-> lat, longitude |-> lon]
PosOutcomes ==
    {Position("37.0", "-122.0"), Position("0", "0"),
     [kind |-> "nocoords", latitude |-> "undefined", longitude |-> "undefined"],
     [kind |-> "rejected", latitude |-> "undefined", longitude |-> "undefined"]}

FetchOutcomes == {"ok", "http-error", "network-error"}
ErrorBodyOutcomes == {"detail", "json", "rejected"}
BodyOutcomes == {"advisory", "rejected"}

\* The advisory state as one value, for the functions below.
Adv == [disabled |-> refreshDisabled, status |-> locationStatus,
        info |-> weatherInfo, chains |-> chains]

SetAdv(a) ==
    /\ refreshDisabled' = a.disabled
    /\ locationStatus' = a.status
    /\ weatherInfo' = a.info
    /\ chains' = a.chains

\* latitude = null, longitude = null: a default applies to an undefined argument
DefaultNull(x) == IF x = "undefined" THEN "null" ELSE x

\* Variant of fetchWeatherAndSpeed: if (latitude && longitude), so 0 counts as absent
fetchWeatherAndSpeedTruthy(a, k, latitude, longitude) ==
    LET lat == DefaultNull(latitude)
        lon == DefaultNull(longitude)
        withCoords == lat \notin {"null", "0"} /\ lon \notin {"null", "0"}
    IN  [a EXCEPT
            !.info = Shown("Fetching weather data...", k),
            !.status = IF withCoords THEN "Requesting weather..."
                       ELSE "Using default location for weather.",
            !.disabled = TRUE,
            !.chains[k] = [@ EXCEPT !.pc = "fetch", !.lat = lat, !.lon = lon,
                                    !.calls = @ + 1,
                                    !.query = IF withCoords THEN <<lat, lon>> ELSE <<>>]]

\* fetchWeatherAndSpeed(latitude, longitude) up to its await fetch(url)
fetchWeatherAndSpeed(a, k, latitude, longitude) ==
    LET lat == DefaultNull(latitude)
        lon == DefaultNull(longitude)
        withCoords == lat # "null" /\ lon # "null"
    IN  [a EXCEPT
            !.info = Shown("Fetching weather data...", k),
            !.status = IF withCoords THEN "Requesting weather..."
                       ELSE "Using default location for weather.",
            !.disabled = TRUE,
            !.chains[k] = [@ EXCEPT !.pc = "fetch", !.lat = lat, !.lon = lon,
                                    !.calls = @ + 1,
                                    !.query = IF withCoords THEN <<lat, lon>> ELSE <<>>]]

\* Variant of catchLocationError: the status is set, the fallback call is missing
catchLocationErrorNoFetch(a, k, how) ==
    [a EXCEPT !.status = "Could not get location. Using default.",
              !.chains[k].how = how,
              !.chains[k].pc = "done"]

\* catch (error) of requestLocationAndFetchWeather
catchLocationError(a, k, how) ==
    fetchWeatherAndSpeed(
        [a EXCEPT !.status = "Could not get location. Using default.",
                  !.chains[k].how = how],
        k, "undefined", "undefined")

\* Variant of requestLocationAndFetchWeather: the button is not disabled at the start
requestLocationLeavesEnabled(a, capability) ==
    LET k  == Len(a.chains) + 1
        a1 == [a EXCEPT !.status = "Requesting location permission...",
                        !.chains = Append(@, Chain("perm", "pending"))]
    IN  IF capability = "plugin" THEN a1 ELSE catchLocationError(a1, k, "capability")

\* requestLocationAndFetchWeather() up to its first await
requestLocationAndFetchWeather(a, capability) ==
    LET k  == Len(a.chains) + 1
        a1 == [a EXCEPT !.status = "Requesting location permission...",
                        !.disabled = TRUE,
                        !.chains = Append(@, Chain("perm", "pending"))]
    IN  IF capability = "plugin" THEN a1 ELSE catchLocationError(a1, k, "capability")

\* the continuation after await requestPermissions()
afterPermission(a, k, outcome) ==
    CASE outcome \in {"granted", "prompt-with-rationale"} ->
            [a EXCEPT !.status = "Permission granted. Getting position...",
                      !.chains[k].pc = "pos"]
      [] outcome \in {"undefined", "rejected"} ->
            catchLocationError(a, k, "permission-error")
      [] OTHER ->
            fetchWeatherAndSpeed(
                [a EXCEPT !.status = "Location permission denied. Using default location.",
                          !.chains[k].how = "denied"],
                k, "undefined", "undefined")

\* the continuation after await getCurrentPosition()
afterPosition(a, k, outcome) ==
    IF outcome.kind = "position"
    THEN fetchWeatherAndSpeed(
            [a EXCEPT !.status = "Location acquired.", !.chains[k].how = "acquired"],
            k, outcome.latitude, outcome.longitude)
    ELSE catchLocationError(a, k, "position-error")

\* Variant of finallyEnable: the finally block is missing
finallyForgetsEnable(a, k) == [a EXCEPT !.chains[k].pc = "done"]

\* finally { refreshWeatherBtn.disabled = false; }
finallyEnable(a, k) == [a EXCEPT !.disabled = FALSE, !.chains[k].pc = "done"]

\* catch (error) of fetchWeatherAndSpeed, then its finally
catchFetchError(a, k, message) ==
    finallyEnable(
        [a EXCEPT !.info = Shown("Could not load weather data: " \o message, k),
                  !.status = "Failed to get weather."],
        k)

\* the continuation after await fetch(url)
afterFetch(a, k, outcome) ==
    CASE outcome = "ok" -> [a EXCEPT !.chains[k].pc = "json"]
      [] outcome = "http-error" -> [a EXCEPT !.chains[k].pc = "errjson"]
      [] OTHER -> catchFetchError(a, k, "Failed to fetch")

\* the continuation after await response.json() of a non-ok response
afterErrorBody(a, k, outcome) ==
    catchFetchError(a, k,
        CASE outcome = "detail" -> "HTTP error! status: 500 - detail"
          [] outcome = "json"   -> "HTTP error! status: 500 - {}"
          [] OTHER              -> "HTTP error! status: 500")

\* the continuation after await response.json() of an ok response
afterBody(a, k, outcome) ==
    IF outcome = "advisory"
    THEN finallyEnable(
            [a EXCEPT !.info = Shown("advisory", k),
                      !.status = "Weather based on: location_used"],
            k)
    ELSE catchFetchError(a, k, "Unexpected token")

\* ------------------------------------------- crash history (operator view)
MaxFetches == 2

\* the history elements as one value, and its assignment
Hist ==
    [disabled |-> loadHistoryDisabled, status |-> historyStatus,
     tbody |-> historyTbody, fetches |-> fetches]
SetHist(h) ==
    /\ loadHistoryDisabled' = h.disabled
    /\ historyStatus' = h.status
    /\ historyTbody' = h.tbody
    /\ fetches' = h.fetches

\* a stored crash as /api/crashes/history returns it
Crash(id) ==
    [id |-> id, detection_timestamp |-> "2024-01-01T00:00:00",
     video_filename |-> "a.mp4", created_at |-> "2024-01-01T00:00:05"]

\* row.insertCell(0..3): id, detection_timestamp, video_filename, created_at
Row(crash) ==
    <<crash.id, crash.detection_timestamp, crash.video_filename, crash.created_at>>

\* historyData.forEach(crash => historyTbody.insertRow() ...): rows are appended
InsertRows(tbody, historyData) ==
    tbody \o [i \in 1..Len(historyData) |-> Row(historyData[i])]

\* what await fetch(...) can produce: a response, or a rejection
Response(kind, ok, status) == [kind |-> kind, ok |-> ok, status |-> status]
NoResponse == Response("none", FALSE, "")
HistoryFetchOutcomes ==
    {Response("response", TRUE, "200"), Response("response", FALSE, "500"),
     Response("response", FALSE, "404"), Response("rejected", FALSE, "")}

\* what await response.json() can produce: an array, a value that is not an
\* array (null), or a rejection on text that is not JSON
Body(kind, rows) == [kind |-> kind, rows |-> rows]
NoBody == Body("none", <<>>)
HistoryBodyOutcomes ==
    {Body("array", <<>>), Body("array", <<Crash(1)>>),
     Body("array", <<Crash(2), Crash(1)>>), Body("array", <<Crash(3)>>),
     Body("null", <<>>), Body("invalid", <<>>)}

\* one run of fetchCrashHistory: where it is suspended, and what it was given
HistoryFetch(pc) == [pc |-> pc, response |-> NoResponse, body |-> NoBody]

\* Variant of fetchCrashHistory: the table body is not emptied first
fetchCrashHistoryKeepsRows(h) ==
    [h EXCEPT !.status = "Loading history...",
              !.disabled = TRUE,
              !.fetches = Append(@, HistoryFetch("fetch"))]

\* fetchCrashHistory up to its first await
fetchCrashHistory(h) ==
    [h EXCEPT !.status = "Loading history...",
              !.tbody = <<>>,
              !.disabled = TRUE,
              !.fetches = Append(@, HistoryFetch("fetch"))]

\* Variant of historyFinally: the button is not re-enabled
historyFinallyForgets(h, k) == [h EXCEPT !.fetches[k].pc = "done"]

\* finally { loadHistoryBtn.disabled = false }
historyFinally(h, k) == [h EXCEPT !.disabled = FALSE, !.fetches[k].pc = "done"]

\* catch (error) { historyStatus.textContent = `Error loading history: ...` }
historyCatch(h, k, message) ==
    historyFinally([h EXCEPT !.status = "Error loading history: " \o message], k)

\* the continuation after await fetch(...)
afterHistoryFetch(h, k, response) ==
    CASE response.kind = "rejected" -> historyCatch(h, k, "Failed to fetch")
      [] ~response.ok -> historyCatch(h, k, "HTTP error! status: " \o response.status)
      [] OTHER -> [h EXCEPT !.fetches[k].pc = "json"]

\* Variant of afterHistoryBody: no branch for the empty array
afterHistoryBodyNoEmptyBranch(h, k, body) ==
    CASE body.kind = "invalid" -> historyCatch(h, k, "Unexpected token")
      [] body.kind = "null" -> historyCatch(h, k, "Cannot read properties of null")
      [] OTHER ->
            historyFinally(
                [h EXCEPT !.status = "", !.tbody = InsertRows(@, body.rows)], k)

\* the continuation after await response.json()
afterHistoryBody(h, k, body) ==
    CASE body.kind = "invalid" -> historyCatch(h, k, "Unexpected token")
      [] body.kind = "null" -> historyCatch(h, k, "Cannot read properties of null")
      [] Len(body.rows) = 0 ->
            historyFinally([h EXCEPT !.status = "No crash history found."], k)
      [] OTHER ->
            historyFinally(
                [h EXCEPT !.status = "", !.tbody = InsertRows(@, body.rows)], k)

\* ------------------------------------------------------------------ actions
Init ==
    /\ view \in Views
    /\ started = FALSE
    /\ sockets = <<>>
    /\ timers = 0
    /\ notifs = <<P(InitialPlaceholder)>>
    /\ arrivals = 0
    /\ varied = 0
    /\ cycles = 0
    /\ last = Event("load", NoFrame, 0, NoSocket)
    /\ refreshDisabled = FALSE
    /\ locationStatus = ""
    /\ weatherInfo = Shown("", 0)
    /\ chains = <<>>
    /\ loadHistoryDisabled = FALSE
    /\ historyStatus = ""
    /\ historyTbody = <<>>
    /\ fetches = <<>>
    /\ stopped = FALSE

\* ws = new WebSocket(WEBSOCKET_URL), handlers attached
connectWebSocket(socks) == Append(socks, Socket("CONNECTING", FALSE, FALSE))

\* the page-load handler: connectWebSocket(); in the user view also
\* requestLocationAndFetchWeather() and the click listener
Start ==
    /\ ~started
    /\ started' = TRUE
    /\ sockets' = connectWebSocket(sockets)
    /\ last' = Event("start", NoFrame, 0, NoSocket)
    /\ IF view = "user"
       THEN \E capability \in Capabilities :
                SetAdv(requestLocationAndFetchWeather(Adv, capability))
       ELSE UNCHANGED advVars
    /\ UNCHANGED <<view, timers, notifs, arrivals, varied, cycles, histVars, stopped>>

\* Variant of OnOpen: the placeholder is written whatever the area shows
OnOpenAlwaysReplaces(i) ==
    /\ sockets[i].readyState = "CONNECTING"
    /\ sockets' = [sockets EXCEPT ![i] = Socket("OPEN", TRUE, FALSE)]
    /\ notifs' = <<P(ConnectedText)>>
    /\ last' = Event("open", NoFrame, 0, sockets[i])
    /\ UNCHANGED <<view, started, timers, arrivals, varied, cycles, advVars, histVars, stopped>>

\* ws.onopen
OnOpen(i) ==
    /\ sockets[i].readyState = "CONNECTING"
    /\ sockets' = [sockets EXCEPT ![i] = Socket("OPEN", TRUE, FALSE)]
    /\ notifs' = IF ShowsWaiting(notifs) THEN <<P(ConnectedText)>> ELSE notifs
    /\ last' = Event("open", NoFrame, 0, sockets[i])
    /\ UNCHANGED <<view, started, timers, arrivals, varied, cycles, advVars, histVars, stopped>>

\* message.type === 'new_crash' && message.data, inside the try block:
\* JSON.parse throws on invalid text, message.type throws on null.
Dispatches(f) ==
    /\ f.json = "object"
    /\ f.type = "new_crash"
    /\ Truthy(f.data)

\* Variant of OnMessage: the catch block surfaces the failure as a record
OnMessageSurfacesError(i, f) ==
    /\ sockets[i].readyState = "OPEN"
    /\ Dispatches(f) => arrivals < MaxMsgs
    /\ (Dispatches(f) /\ f # Canonical) => varied < MaxVaried
    /\ IF Dispatches(f)
       THEN /\ notifs' = addNotification(view, notifs, f.data, FALSE, arrivals + 1)
            /\ arrivals' = arrivals + 1
            /\ varied' = IF f = Canonical THEN varied ELSE varied + 1
            /\ cycles' = 0
            /\ last' = Event("message", f, 1, sockets[i])
       ELSE /\ notifs' = IF f.json \in {"invalid", "null"}
                         THEN addNotification(view, notifs, Obj(ErrorFilename(view)), TRUE, 0)
                         ELSE notifs
            /\ last' = Event("message", f, 0, sockets[i])
            /\ UNCHANGED <<arrivals, varied, cycles>>
    /\ UNCHANGED <<view, started, sockets, timers, advVars, histVars, stopped>>

\* ws.onmessage
OnMessage(i, f) ==
    /\ sockets[i].readyState = "OPEN"
    /\ Dispatches(f) => arrivals < MaxMsgs
    /\ (Dispatches(f) /\ f # Canonical) => varied < MaxVaried
    /\ IF Dispatches(f)
       THEN /\ notifs' = addNotification(view, notifs, f.data, FALSE, arrivals + 1)
            /\ arrivals' = arrivals + 1
            /\ varied' = IF f = Canonical THEN varied ELSE varied + 1
            /\ cycles' = 0
            /\ last' = Event("message", f, 1, sockets[i])
       ELSE /\ last' = Event("message", f, 0, sockets[i])
            /\ UNCHANGED <<notifs, arrivals, varied, cycles>>
    /\ UNCHANGED <<view, started, sockets, timers, advVars, histVars, stopped>>

\* Variant of OnError: the error handler schedules a reconnect as well
OnErrorReconnects(i) ==
    /\ sockets[i].readyState \in {"CONNECTING", "OPEN"}
    /\ sockets' = [sockets EXCEPT ![i] = Socket("CLOSED", sockets[i].wasOpen, TRUE)]
    /\ notifs' = addNotification(view, notifs, Obj(ErrorFilename(view)), TRUE, 0)
    /\ timers' = timers + 1
    /\ last' = Event("error", NoFrame, 1, sockets[i])
    /\ UNCHANGED <<view, started, arrivals, varied, cycles, advVars, histVars, stopped>>

\* ws.onerror: the transport failed; readyState is CLOSED, close follows
OnError(i) ==
    /\ sockets[i].readyState \in {"CONNECTING", "OPEN"}
    /\ sockets' = [sockets EXCEPT ![i] = Socket("CLOSED", sockets[i].wasOpen, TRUE)]
    /\ notifs' = addNotification(view, notifs, Obj(ErrorFilename(view)), TRUE, 0)
    /\ last' = Event("error", NoFrame, 1, sockets[i])
    /\ UNCHANGED <<view, started, timers, arrivals, varied, cycles, advVars, histVars, stopped>>

\* sockets without the i-th
Remove(socks, i) == SubSeq(socks, 1, i - 1) \o SubSeq(socks, i + 1, Len(socks))

\* Variant of OnClose: a reconnect only for a channel that had been open
OnCloseRetriesOnlyAfterOpen(i) ==
    /\ sockets' = Remove(sockets, i)
    /\ notifs' = <<P(DisconnectedText(view))>>
    /\ timers' = IF sockets[i].wasOpen THEN timers + 1 ELSE timers
    /\ last' = Event("close", NoFrame, 0, sockets[i])
    /\ UNCHANGED <<view, started, arrivals, varied, cycles, advVars, histVars, stopped>>

\* Variant of OnClose: the status paragraph is prepended, the records stay
OnClosePrependsStatus(i) ==
    /\ sockets' = Remove(sockets, i)
    /\ notifs' = Evict(<<P(DisconnectedText(view))>> \o notifs, maxNotifications(view))
    /\ timers' = timers + 1
    /\ last' = Event("close", NoFrame, 0, sockets[i])
    /\ UNCHANGED <<view, started, arrivals, varied, cycles, advVars, histVars, stopped>>

\* ws.onclose
OnClose(i) ==
    /\ sockets' = Remove(sockets, i)
    /\ notifs' = <<P(DisconnectedText(view))>>
    /\ timers' = timers + 1
    /\ last' = Event("close", NoFrame, 0, sockets[i])
    /\ UNCHANGED <<view, started, arrivals, varied, cycles, advVars, histVars, stopped>>

\* Variant of RetryTimer: a maximum retry count, after which it gives up
RetryTimerGivesUp ==
    /\ timers > 0
    /\ timers' = timers - 1
    /\ sockets' = IF cycles < MaxCycles - 1 THEN connectWebSocket(sockets) ELSE sockets
    /\ cycles' = Min(cycles + 1, MaxCycles)
    /\ last' = Event("timer", NoFrame, 0, NoSocket)
    /\ UNCHANGED <<view, started, notifs, arrivals, varied, advVars, histVars, stopped>>

\* the 5000 ms timer fires: connectWebSocket()
RetryTimer ==
    /\ timers > 0
    /\ timers' = timers - 1
    /\ sockets' = connectWebSocket(sockets)
    /\ cycles' = Min(cycles + 1, MaxCycles)
    /\ last' = Event("timer", NoFrame, 0, NoSocket)
    /\ UNCHANGED <<view, started, notifs, arrivals, varied, advVars, histVars, stopped>>

\* a click on refreshWeatherBtn; a disabled button dispatches no click
Click ==
    /\ started
    /\ view = "user"
    /\ ~refreshDisabled
    /\ Len(chains) < MaxChains
    /\ \E capability \in Capabilities :
            SetAdv(requestLocationAndFetchWeather(Adv, capability))
    /\ UNCHANGED <<view, started, pushVars, histVars, stopped>>

PermissionSettles(k) ==
    /\ chains[k].pc = "perm"
    /\ \E outcome \in PermOutcomes :
            SetAdv(afterPermission([Adv EXCEPT !.chains[k].perm = outcome], k, outcome))
    /\ UNCHANGED <<view, started, pushVars, histVars, stopped>>

PositionSettles(k) ==
    /\ chains[k].pc = "pos"
    /\ \E outcome \in PosOutcomes :
            SetAdv(afterPosition([Adv EXCEPT !.chains[k].position = outcome], k, outcome))
    /\ UNCHANGED <<view, started, pushVars, histVars, stopped>>

FetchSettles(k) ==
    /\ chains[k].pc = "fetch"
    /\ \E outcome \in FetchOutcomes : SetAdv(afterFetch(Adv, k, outcome))
    /\ UNCHANGED <<view, started, pushVars, histVars, stopped>>

ErrorBodySettles(k) ==
    /\ chains[k].pc = "errjson"
    /\ \E outcome \in ErrorBodyOutcomes : SetAdv(afterErrorBody(Adv, k, outcome))
    /\ UNCHANGED <<view, started, pushVars, histVars, stopped>>

BodySettles(k) ==
    /\ chains[k].pc = "json"
    /\ \E outcome \in BodyOutcomes : SetAdv(afterBody(Adv, k, outcome))
    /\ UNCHANGED <<view, started, pushVars, histVars, stopped>>

\* a click on loadHistoryBtn; a disabled button dispatches no click
LoadHistoryClick ==
    /\ started
    /\ view = "operator"
    /\ ~loadHistoryDisabled
    /\ Len(fetches) < MaxFetches
    /\ SetHist(fetchCrashHistory(Hist))
    /\ UNCHANGED <<view, started, pushVars, advVars, stopped>>

HistoryFetchSettles(k) ==
    /\ fetches[k].pc = "fetch"
    /\ \E response \in HistoryFetchOutcomes :
            SetHist(afterHistoryFetch(
                [Hist EXCEPT !.fetches[k].response = response], k, response))
    /\ UNCHANGED <<view, started, pushVars, advVars, stopped>>

HistoryBodySettles(k) ==
    /\ fetches[k].pc = "json"
    /\ \E body \in HistoryBodyOutcomes :
            SetHist(afterHistoryBody([Hist EXCEPT !.fetches[k].body = body], k, body))
    /\ UNCHANGED <<view, started, pushVars, advVars, stopped>>

\* stop(): the teardown of the channel contract.  Neither script defines it;
\* the only teardown their state allows is ws.close() on the current socket,
\* after which the browser dispatches that socket's close event.
Stop(i) ==
    /\ started
    /\ ~stopped
    /\ sockets[i].readyState \in {"CONNECTING", "OPEN"}
    /\ stopped' = TRUE
    /\ sockets' = [sockets EXCEPT ![i] = Socket("CLOSING", sockets[i].wasOpen, FALSE)]
    /\ last' = Event("stop", NoFrame, 0, sockets[i])
    /\ UNCHANGED <<view, started, timers, notifs, arrivals, varied, cycles, advVars, histVars>>

\* ------------------------------------------------------------ specifications
\* The push channel and the notification area.  The advisory chain shares no
\* variable with them, so its continuations are left out here.
Next ==
    \/ Start
    \/ \E i \in 1..Len(sockets) : OnOpen(i)
    \/ \E i \in 1..Len(sockets) : \E f \in Frames : OnMessage(i, f)
    \/ \E i \in 1..Len(sockets) : OnError(i)
    \/ \E i \in 1..Len(sockets) : OnClose(i)
    \/ RetryTimer

Spec == Init /\ [][Next]_vars

\* The retry timer is a browser timer: once set it fires.
SpecLive == Spec /\ WF_vars(RetryTimer)

\* The push channel with a teardown request.
NextStop ==
    \/ Next
    \/ \E i \in 1..Len(sockets) : Stop(i)

SpecStop == Init /\ [][NextStop]_vars

\* The advisory chain of the user view.
NextAdvisory ==
    \/ Start
    \/ Click
    \/ \E k \in 1..Len(chains) : PermissionSettles(k)
    \/ \E k \in 1..Len(chains) : PositionSettles(k)
    \/ \E k \in 1..Len(chains) : FetchSettles(k)
    \/ \E k \in 1..Len(chains) : ErrorBodySettles(k)
    \/ \E k \in 1..Len(chains) : BodySettles(k)

SpecAdvisory == Init /\ [][NextAdvisory]_vars

\* Every collaborator call (permission, position, fetch, body) settles.
SpecAdvisoryLive ==
    /\ SpecAdvisory
    /\ WF_vars(\E k \in 1..Len(chains) : PermissionSettles(k))
    /\ WF_vars(\E k \in 1..Len(chains) : PositionSettles(k))
    /\ WF_vars(\E k \in 1..Len(chains) : FetchSettles(k))
    /\ WF_vars(\E k \in 1..Len(chains) : ErrorBodySettles(k))
    /\ WF_vars(\E k \in 1..Len(chains) : BodySettles(k))

\* The history table of the operator view.
NextHistory ==
    \/ Start
    \/ LoadHistoryClick
    \/ \E k \in 1..Len(fetches) : HistoryFetchSettles(k)
    \/ \E k \in 1..Len(fetches) : HistoryBodySettles(k)

SpecHistory == Init /\ [][NextHistory]_vars

\* The request and the reading of its body settle.
SpecHistoryLive ==
    /\ SpecHistory
    /\ WF_vars(\E k \in 1..Len(fetches) : HistoryFetchSettles(k))
    /\ WF_vars(\E k \in 1..Len(fetches) : HistoryBodySettles(k))

\* ------------------------------------------------------------ properties
Capacity == maxNotifications(view)
Live(s) == s.readyState \in {"CONNECTING", "OPEN"}
LiveSockets == {i \in 1..Len(sockets) : Live(sockets[i])}
Connecting == \E i \in 1..Len(sockets) : sockets[i].readyState = "CONNECTING"
IsOpen == \E i \in 1..Len(sockets) : sockets[i].readyState = "OPEN"
IsRecord(e) == e.tag = "div"
IsAlert(e) == e.tag = "div" /\ ~e.isError
Records(children) == SelectSeq(children, IsRecord)
Alerts(children) == SelectSeq(children, IsAlert)
IsPrefix(a, b) == Len(a) <= Len(b) /\ a = SubSeq(b, 1, Len(a))

\* C1: in every reachable state at most one push channel is CONNECTING or
\* OPEN; no connection attempt starts while an earlier channel is live.
C1_OneLiveChannel == Cardinality(LiveSockets) <= 1

\* C1 witness: a channel is OPEN again after a loss and a retry.
C1_Witness == cycles >= 1 /\ IsOpen /\ Len(sockets) = 1

\* C2: every close leaves the manager with no channel and a pending retry
\* timer (CLOSED_PENDING_RETRY), and every pending retry is eventually
\* followed by a new connection attempt, however many cycles came before.
C2_RetryForever ==
    /\ [](last.ev = "close" => (timers = 1 /\ sockets = <<>>))
    /\ (timers > 0) ~> (last.ev = "timer" /\ Connecting)

\* C2 witness: the MaxCycles-th consecutive loss/retry cycle has started a
\* new attempt.
C2_Witness == cycles = MaxCycles /\ last.ev = "timer" /\ Connecting

\* C3: the notification area never holds more children than the capacity;
\* every push puts the new record at the head, keeps the others in order,
\* and removes children only from the tail and only down to the capacity.
C3_BoundedHeadTail ==
    /\ [](Len(notifs) <= Capacity)
    /\ [][last'.pushed = 1 =>
            LET old == IF ShowsWaiting(notifs) THEN <<>> ELSE notifs
            IN  /\ IsRecord(Head(notifs'))
                /\ last'.ev = "message" => Head(notifs').seq = arrivals'
                /\ last'.ev = "error" => Head(notifs').isError
                /\ IsPrefix(Tail(notifs'), old)
                /\ Len(notifs') = Min(Len(old) + 1, Capacity)]_vars

\* C3 witness: the operator view is full and a push has just evicted.
C3_Witness ==
    /\ view = "operator"
    /\ last.ev = "message" /\ last.pushed = 1
    /\ arrivals > Capacity
    /\ Len(notifs) = Capacity

\* C4 (as claimed): once more than capacity records have been pushed, the
\* snapshot has exactly capacity entries, all of them records, and its alert
\* records are the most recent ones, most recent first.
C4_LastCapacityRecords ==
    arrivals > Capacity =>
        /\ Len(notifs) = Capacity
        /\ \A i \in 1..Len(notifs) : IsRecord(notifs[i])
        /\ \A j \in 1..Len(Alerts(notifs)) : Alerts(notifs)[j].seq = arrivals - j + 1

\* A frame of the expected envelope: parses, type new_crash, data an object.
WellFormed(f) == f.json = "object" /\ f.type = "new_crash" /\ f.data.t = "object"

\* C5 (as claimed): a frame yields a dispatched record if and only if it is
\* well formed, and the record then carries the frame's video_filename.
C5_DispatchIffWellFormed ==
    last.ev = "message" =>
        /\ last.pushed = 1 <=> WellFormed(last.frame)
        /\ (last.pushed = 1 /\ VideoFilename(last.frame.data) \notin {"undefined", ""})
              => Head(notifs).text = VideoFilename(last.frame.data)

\* A frame that fails to decode: invalid JSON, no envelope, unrecognized type.
Undecodable(f) == f.json # "object" \/ f.type # "new_crash"

\* C6: a frame that fails to decode changes neither the notification area
\* nor the channel nor the retry timers; the channel is still OPEN, and a
\* valid frame arriving next is dispatched.
C6_DropIsNoOp ==
    /\ [][(last'.ev = "message" /\ Undecodable(last'.frame)) =>
            /\ last'.pushed = 0
            /\ UNCHANGED <<notifs, sockets, timers, arrivals>>]_vars
    /\ []((last.ev = "message" /\ Undecodable(last.frame)) =>
            /\ IsOpen /\ Len(sockets) = 1 /\ timers = 0
            /\ arrivals < MaxMsgs => ENABLED OnMessage(1, Canonical))
    /\ [][(/\ last.ev = "message" /\ Undecodable(last.frame)
           /\ last'.ev = "message" /\ last'.frame = Canonical) =>
            /\ last'.pushed = 1
            /\ Head(notifs').seq = arrivals + 1
            /\ Head(notifs').text = "a.mp4"]_vars

\* C6 witness: invalid JSON was just dropped while records are displayed.
C6_Witness ==
    /\ last.ev = "message" /\ last.frame = InvalidJson
    /\ arrivals > 1
    /\ Head(notifs).seq = arrivals

\* C7 (as claimed): when a channel that was OPEN has closed, the store holds
\* exactly one synthetic record and the status paragraph has been replaced.
C7_CloseLeavesSynthetic ==
    (last.ev = "close" /\ last.sock.wasOpen) =>
        /\ Len(SelectSeq(notifs, LAMBDA e : e.tag = "div" /\ e.isError)) = 1
        /\ \E i \in 1..Len(notifs) : notifs[i] = P(DisconnectedText(view))

\* C8 (as claimed): a stored record is removed only by a push, from the tail,
\* when the capacity is exceeded; every other event keeps all the records.
C8_OnlyTailEviction ==
    [][IF last'.pushed = 1
       THEN /\ IsPrefix(Records(Tail(notifs')), Records(notifs))
            /\ Len(Records(Tail(notifs'))) < Len(Records(notifs))
                   => Len(notifs) = Capacity
       ELSE Records(notifs') = Records(notifs)]_vars

\* C9: of two alert records in the snapshot, the one that arrived later is
\* nearer the head.
C9_ArrivalOrder ==
    \A i, j \in 1..Len(notifs) :
        (i < j /\ IsAlert(notifs[i]) /\ IsAlert(notifs[j])) => notifs[i].seq > notifs[j].seq

\* C9 witness: three records that arrived one after the other are displayed.
C9_Witness ==
    /\ Len(notifs) >= 3
    /\ arrivals >= 3
    /\ \A i \in 1..3 : IsAlert(notifs[i]) /\ notifs[i].seq = arrivals - i + 1

FailedLocation == {"capability", "permission-error", "denied", "position-error"}

\* C10: every advisory chain calls the endpoint at most once, has called it
\* exactly once as soon as its location steps are over (so also when it
\* ends), and a chain whose location step failed called it without
\* coordinates.
C10_OneEndpointCall ==
    \A k \in 1..Len(chains) :
        /\ chains[k].calls <= 1
        /\ chains[k].pc \notin {"perm", "pos"} => chains[k].calls = 1
        /\ chains[k].how \in FailedLocation =>
              (chains[k].calls = 1 /\ chains[k].query = <<>>)

\* C10 witness: chains have ended after a position failure and after a
\* missing capability.
C10_Witness ==
    /\ Len(chains) = 2
    /\ chains[1].pc = "done" /\ chains[1].how = "position-error"
    /\ chains[2].pc = "done" /\ chains[2].how = "capability"

\* Permission granted (or conditionally granted) and a position acquired.
Acquired(c) ==
    /\ c.perm \in {"granted", "prompt-with-rationale"}
    /\ c.position.kind = "position"

\* C11: the endpoint is called with lat/lon parameters exactly when
\* permission was granted and a position was acquired, and they are then
\* that position's latitude and longitude; otherwise the url has no query.
C11_CoordinatesIffAcquired ==
    \A k \in 1..Len(chains) :
        chains[k].calls = 1 =>
            /\ chains[k].query # <<>> <=> Acquired(chains[k])
            /\ Acquired(chains[k]) =>
                  chains[k].query = <<chains[k].position.latitude,
                                      chains[k].position.longitude>>

\* C11 witness: one chain called with the acquired position (37.0, -122.0),
\* another, permission denied, called without parameters.
C11_Witness ==
    /\ Len(chains) = 2
    /\ chains[1].perm = "granted" /\ chains[1].query = <<"37.0", "-122.0">>
    /\ chains[2].perm = "denied" /\ chains[2].calls = 1 /\ chains[2].query = <<>>

InFlight == {k \in 1..Len(chains) : chains[k].pc # "done"}

\* C12: the trigger control is disabled whenever a chain has not yet ended,
\* and a disabled control is eventually enabled again.
C12_DisabledThenEnabled ==
    /\ [](InFlight # {} => refreshDisabled)
    /\ refreshDisabled ~> ~refreshDisabled

\* C12 witness: the control is enabled after a chain whose permission was
\* denied and a chain that ended with an advisory displayed.
C12_Witness ==
    /\ Len(chains) = 2 /\ InFlight = {}
    /\ ~refreshDisabled
    /\ chains[1].how = "denied"
    /\ weatherInfo = Shown("advisory", 2)

\* C19: at most one advisory chain is in flight, and whatever is written to
\* the advisory display is written by the chain started last.
C19_OneChainInFlight ==
    /\ [](Cardinality(InFlight) <= 1)
    /\ [][weatherInfo' # weatherInfo => weatherInfo'.by = Len(chains')]_vars

\* C19 witness: a click has started a second chain after the first ended.
C19_Witness ==
    /\ Len(chains) = 2
    /\ chains[1].pc = "done"
    /\ chains[2].pc = "pos"
    /\ refreshDisabled

\* the history fetches that have not settled
FetchesInFlight == {k \in 1..Len(fetches) : fetches[k].pc # "done"}

\* C13: the history button is disabled while a history fetch is in flight, so
\* at most one is in flight; the step that settles a fetch re-enables it,
\* whatever the outcome; a disabled button is always enabled again.
C13_HistoryDisabledThenEnabled ==
    /\ [](FetchesInFlight # {} => loadHistoryDisabled)
    /\ [](Cardinality(FetchesInFlight) <= 1)
    /\ [][\A k \in 1..Len(fetches) :
            (fetches[k].pc # "done" /\ fetches'[k].pc = "done")
                => ~loadHistoryDisabled']_vars
    /\ loadHistoryDisabled ~> ~loadHistoryDisabled

\* a network failure, then a parse failure, and the button is enabled
C13_Witness ==
    /\ Len(fetches) = 2
    /\ fetches[1].pc = "done" /\ fetches[1].response.kind = "rejected"
    /\ fetches[2].pc = "done" /\ fetches[2].body.kind = "invalid"
    /\ ~loadHistoryDisabled

\* the latest history fetch, once settled
Settled(f) == Len(fetches) > 0 /\ f = fetches[Len(fetches)] /\ f.pc = "done"

\* C14: a settled fetch whose response was a successful empty array shows
\* "No crash history found."; one whose response had a non-success status
\* shows the error status with that status code, and no rows.
C14_EmptyAndHttpError ==
    \A f \in {fetches[k] : k \in 1..Len(fetches)} :
        Settled(f) =>
            /\ (f.response.ok /\ f.body = Body("array", <<>>))
                    => historyStatus = "No crash history found."
            /\ (f.response.kind = "response" /\ ~f.response.ok)
                    => /\ historyStatus =
                            "Error loading history: HTTP error! status: " \o f.response.status
                       /\ historyTbody = <<>>

\* a 500 first, then a successful empty array: the status is the no-history one
C14_Witness ==
    /\ Len(fetches) = 2
    /\ fetches[1].pc = "done" /\ fetches[1].response.status = "500"
    /\ Settled(fetches[2]) /\ fetches[2].body = Body("array", <<>>)
    /\ historyStatus = "No crash history found."
    /\ historyTbody = <<>>

\* C17: when a history fetch has settled the table holds exactly the rows of
\* its response, in response order, and none if the response was empty or
\* the fetch failed; while one is in flight the table is empty.
C17_FetchReplacesRows ==
    \A k \in 1..Len(fetches) :
        k = Len(fetches) =>
            historyTbody =
                IF fetches[k].pc = "done" /\ fetches[k].body.kind = "array"
                THEN [i \in 1..Len(fetches[k].body.rows) |->
                        <<fetches[k].body.rows[i].id,
                          fetches[k].body.rows[i].detection_timestamp,
                          fetches[k].body.rows[i].video_filename,
                          fetches[k].body.rows[i].created_at>>]
                ELSE <<>>

\* two rows of a first fetch are replaced by the one row of the second
C17_Witness ==
    /\ Len(fetches) = 2
    /\ fetches[1].body.rows = <<Crash(2), Crash(1)>>
    /\ fetches[2].pc = "done" /\ fetches[2].body.rows = <<Crash(3)>>
    /\ Len(historyTbody) = 1 /\ historyTbody[1][1] = 3

OpenStep ==
    /\ Len(sockets') = Len(sockets)
    /\ \E i \in 1..Len(sockets) :
            sockets[i].readyState = "CONNECTING" /\ sockets'[i].readyState = "OPEN"

\* C16: the open event replaces a waiting placeholder by the "connected"
\* placeholder and otherwise leaves the notification area as it is; in both
\* cases the records and their count are untouched.
C16_OpenTouchesOnlyPlaceholder ==
    [][OpenStep =>
        /\ IF notifs \in {<<P(InitialPlaceholder)>>, <<P(ConnectedText)>>}
           THEN notifs' = <<P(ConnectedText)>>
           ELSE notifs' = notifs
        /\ Records(notifs') = Records(notifs)
        /\ arrivals' = arrivals]_vars

\* a reconnected channel opens and the disconnected status stays
C16_Witness ==
    /\ last.ev = "open"
    /\ IsOpen
    /\ cycles >= 1
    /\ notifs = <<P(DisconnectedText(view))>>

\* a step in which the error event of a socket is handled
ErrorStep ==
    /\ Len(sockets') = Len(sockets)
    /\ \E i \in 1..Len(sockets) : ~sockets[i].errored /\ sockets'[i].errored

Lost(before, after) ==
    {j \in 1..Len(before) :
        /\ IsAlert(before[j])
        /\ \A i \in 1..Len(after) : after[i] # before[j]}

\* C20: when a paragraph and records share the area the paragraph is the only
\* one and the last child; a push that drops an alert record finds no
\* paragraph and a full area of records, so more than capacity records have
\* been pushed since the area was last cleared.
C20_StatusNeverCostsARecord ==
    /\ [](\A i \in 1..Len(notifs) :
            (notifs[i].tag = "p" /\ Len(Records(notifs)) > 0) => i = Len(notifs))
    /\ [][(last'.pushed = 1 /\ Lost(notifs, notifs') # {}) =>
            /\ \A i \in 1..Len(notifs) : notifs[i].tag # "p"
            /\ Len(Records(notifs)) + 1 > Capacity]_vars

\* the area is full, and its last child is the disconnected status
C20_Witness ==
    /\ Len(notifs) = Capacity
    /\ notifs[Capacity] = P(DisconnectedText(view))
    /\ Len(Alerts(notifs)) = Capacity - 1

====
